---- MODULE Spec2Model ----
(***************************************************************************)
(* Model of imsg-watcher/imsg-ai-responder.py: one short-lived process per *)
(* incoming message, a rolling transcript kept in a JSON file, one call to *)
(* the generation endpoint per call of main().                             *)
(*                                                                         *)
(* Text is a sequence of one-character strings.  The transcript file is    *)
(* the text json.dump writes, and load_history parses that text again.     *)
(*                                                                         *)
(* Left out: the choice of the TLS trust store (lines 18-43), which no     *)
(* later step reads back, and a failing write of the log file, which only  *)
(* moves the line to stderr.  Log lines stand for the calls of log(); the  *)
(* variable parts of a line (error body, reply preview) are not kept.      *)
(***************************************************************************)
EXTENDS Integers, Sequences, FiniteSets, TLC

\* ------------------------------------------------------------------ bounds

\* Number of runs of the program each invocation slot may make in a row.
MaxRuns == 1

\* The stored transcripts a behaviour may start from have 0 turns or between
\* MAX_HISTORY - InitSlack and MAX_HISTORY turns.
InitSlack == 3

\* ------------------------------------------------------- program constants

MAX_HISTORY == 20

\* Character classes of JSON text.
QUOTE == "\""
BSLASH == "\\"
NEWLINE == "\n"
SPACE == " "

USER == <<"u", "s", "e", "r">>
ASSISTANT == <<"a", "s", "s", "i", "s", "t", "a", "n", "t">>

KEY_ROLE == <<"r", "o", "l", "e">>
KEY_CONTENT == <<"c", "o", "n", "t", "e", "n", "t">>
KEY_TIMESTAMP == <<"t", "i", "m", "e", "s", "t", "a", "m", "p">>

\* The persona text of call_gemini (the literal is abbreviated to its first
\* words; nothing in the program looks inside it).
system_prompt == <<"Y", "o", "u", " ", "a", "r", "e", " ", "B", "e", "s", "s", "i", "e">>

\* "\n\nUser: ", the text call_gemini puts between persona and message.
USER_PREFIX == <<NEWLINE, NEWLINE, "U", "s", "e", "r", ":", SPACE>>

\* ----------------------------------------------------- optional values

None == [some |-> FALSE, val |-> <<>>]
Some(v) == [some |-> TRUE, val |-> v]

\* Python truthiness of a str-or-None value: None and '' are false.
Truthy(x) == x.some /\ x.val # <<>>

\* ------------------------------------------------------------ json.dump

\* EscapeChar with the backslash written as it is.
EscapeChar_RawBackslash(c) ==
    IF c = QUOTE THEN <<BSLASH, QUOTE>>
    ELSE IF c = NEWLINE THEN <<BSLASH, "n">>
    ELSE <<c>>

\* One character of a string as json.dump writes it inside the quotes.
EscapeChar(c) ==
    IF c = QUOTE THEN <<BSLASH, QUOTE>>
    ELSE IF c = BSLASH THEN <<BSLASH, BSLASH>>
    ELSE IF c = NEWLINE THEN <<BSLASH, "n">>
    ELSE <<c>>

RECURSIVE EscapeString(_)
EscapeString(s) ==
    IF s = <<>> THEN <<>> ELSE EscapeChar(Head(s)) \o EscapeString(Tail(s))

\* A JSON string literal.
DumpString(s) == <<QUOTE>> \o EscapeString(s) \o <<QUOTE>>

Indent(n) == [i \in 1..n |-> SPACE]

\* One member line of an object at nesting level 2 (indent=2): `"key": "value"`.
DumpMember(key, value) ==
    Indent(4) \o DumpString(key) \o <<":", SPACE>> \o DumpString(value)

\* One turn, a dict with the keys in insertion order role, content, timestamp.
DumpTurn(t) ==
    Indent(2) \o <<"{", NEWLINE>>
    \o DumpMember(KEY_ROLE, t.role) \o <<",", NEWLINE>>
    \o DumpMember(KEY_CONTENT, t.content) \o <<",", NEWLINE>>
    \o DumpMember(KEY_TIMESTAMP, t.timestamp) \o <<NEWLINE>>
    \o Indent(2) \o <<"}">>

RECURSIVE DumpTurns(_)
DumpTurns(h) ==
    IF Len(h) = 1 THEN DumpTurn(h[1])
    ELSE DumpTurn(Head(h)) \o <<",", NEWLINE>> \o DumpTurns(Tail(h))

\* json.dump(history, f, indent=2): the whole text of the file.
JsonDump(h) ==
    IF h = <<>> THEN <<"[", "]">>
    ELSE <<"[", NEWLINE>> \o DumpTurns(h) \o <<NEWLINE, "]">>

\* ------------------------------------------------------------ json.load

Whitespace == {SPACE, NEWLINE}

Fail == [ok |-> FALSE, val |-> <<>>, next |-> 0]
Ok(v, n) == [ok |-> TRUE, val |-> v, next |-> n]

RECURSIVE SkipWs(_, _)
SkipWs(t, i) ==
    IF i <= Len(t) /\ t[i] \in Whitespace THEN SkipWs(t, i + 1) ELSE i

\* The characters of a string literal from position i (after the opening quote)
\* to the closing quote; a raw newline or an unknown escape is a parse error.
RECURSIVE ScanString(_, _, _)
ScanString(t, i, acc) ==
    IF i > Len(t) THEN Fail
    ELSE IF t[i] = QUOTE THEN Ok(acc, i + 1)
    ELSE IF t[i] = NEWLINE THEN Fail
    ELSE IF t[i] = BSLASH THEN
        IF i + 1 > Len(t) THEN Fail
        ELSE IF t[i + 1] = QUOTE THEN ScanString(t, i + 2, Append(acc, QUOTE))
        ELSE IF t[i + 1] = BSLASH THEN ScanString(t, i + 2, Append(acc, BSLASH))
        ELSE IF t[i + 1] = "n" THEN ScanString(t, i + 2, Append(acc, NEWLINE))
        ELSE Fail
    ELSE ScanString(t, i + 1, Append(acc, t[i]))

ParseString(t, i) ==
    IF i <= Len(t) /\ t[i] = QUOTE THEN ScanString(t, i + 1, <<>>) ELSE Fail

\* dict lookup: the value of the last member with that key.
Lookup(members, key) ==
    LET at == {i \in 1..Len(members) : members[i][1] = key} IN
    members[CHOOSE i \in at : \A j \in at : j <= i][2]

HasKey(members, key) == \E i \in 1..Len(members) : members[i][1] = key

\* The dict of one turn as the program reads it (msg["role"], msg["content"]).
ToTurn(members) ==
    [role |-> Lookup(members, KEY_ROLE),
     content |-> Lookup(members, KEY_CONTENT),
     timestamp |-> Lookup(members, KEY_TIMESTAMP)]

\* The members of an object from position i (after "{" or ","): a sequence of
\* <<key, value>> pairs, up to and including the closing "}".  The steps of
\* the descent are operators of their own: key, colon, value, separator.
RECURSIVE ParseMembers(_, _, _)

MemberSeparator(t, members, e) ==
    IF e > Len(t) THEN Fail
    ELSE IF t[e] = "," THEN ParseMembers(t, e + 1, members)
    ELSE IF t[e] = "}" THEN Ok(members, e + 1)
    ELSE Fail

MemberValue(t, acc, k, v) ==
    IF ~v.ok THEN Fail
    ELSE MemberSeparator(t, Append(acc, <<k.val, v.val>>), SkipWs(t, v.next))

MemberColon(t, acc, k, c) ==
    IF ~(c <= Len(t) /\ t[c] = ":") THEN Fail
    ELSE MemberValue(t, acc, k, ParseString(t, SkipWs(t, c + 1)))

MemberKey(t, acc, k) ==
    IF ~k.ok THEN Fail ELSE MemberColon(t, acc, k, SkipWs(t, k.next))

ParseMembers(t, i, acc) == MemberKey(t, acc, ParseString(t, SkipWs(t, i)))

\* One object of the list.  The file only ever holds what save_history wrote,
\* so an object that is not a turn counts as a parse error here.
ObjectOf(m) ==
    IF ~m.ok THEN Fail
    ELSE IF ~(HasKey(m.val, KEY_ROLE) /\ HasKey(m.val, KEY_CONTENT)
              /\ HasKey(m.val, KEY_TIMESTAMP)) THEN Fail
    ELSE Ok(ToTurn(m.val), m.next)

ParseObject(t, i) ==
    IF ~(i <= Len(t) /\ t[i] = "{") THEN Fail
    ELSE ObjectOf(ParseMembers(t, i + 1, <<>>))

\* The items of a list from position i (after "[" or ","), up to the "]".
RECURSIVE ParseItems(_, _, _)

ItemSeparator(t, items, e) ==
    IF e > Len(t) THEN Fail
    ELSE IF t[e] = "," THEN ParseItems(t, e + 1, items)
    ELSE IF t[e] = "]" THEN Ok(items, e + 1)
    ELSE Fail

Item(t, acc, o) ==
    IF ~o.ok THEN Fail
    ELSE ItemSeparator(t, Append(acc, o.val), SkipWs(t, o.next))

ParseItems(t, i, acc) == Item(t, acc, ParseObject(t, SkipWs(t, i)))

\* Nothing but whitespace may follow the value.
EndOfText(t, r) ==
    IF ~r.ok THEN Fail
    ELSE IF SkipWs(t, r.next) <= Len(t) THEN Fail
    ELSE r

ListBody(t, b) ==
    IF b <= Len(t) /\ t[b] = "]" THEN Ok(<<>>, b + 1) ELSE ParseItems(t, b, <<>>)

ListStart(t, s) ==
    IF ~(s <= Len(t) /\ t[s] = "[") THEN Fail
    ELSE EndOfText(t, ListBody(t, SkipWs(t, s + 1)))

\* json.load(f) on the texts the transcript file can hold: a list of turn
\* objects, or anything else (a parse error, ok = FALSE).
JsonLoad(t) == ListStart(t, SkipWs(t, 1))

\* ------------------------------------------------------------ inputs

Procs == {1, 2}

\* The message arguments a run may be started with.
Msgs == {<<"h", "i">>, <<"a", QUOTE, BSLASH, NEWLINE>>}

\* The non-empty reply texts the remote API may produce.
Replies == {<<"o", BSLASH, "k">>}

Digits == <<"0", "1", "2", "3", "4", "5", "6", "7", "8", "9">>
TwoDigits(n) == <<Digits[((n \div 10) % 10) + 1], Digits[(n % 10) + 1]>>

\* datetime.now().isoformat() at logical time n.
IsoFormat(n) == <<"T">> \o TwoDigits(n)

\* A transcript of n turns left by earlier runs: user and assistant turns
\* alternate, every turn has its own content.
StoredTranscript(n) ==
    [i \in 1..n |->
        [role |-> IF i % 2 = 1 THEN USER ELSE ASSISTANT,
         content |-> <<"c">> \o TwoDigits(i),
         timestamp |-> <<"S">> \o TwoDigits(i)]]

InitLens == {0} \cup {n \in 0..MAX_HISTORY : n >= MAX_HISTORY - InitSlack}

EmptyDict == [k \in {} |-> <<>>]

\* What urlopen can produce: an HTTP error status, any other exception
\* (network, timeout, malformed body), or a decoded JSON document.
OkResponse(result) == [kind |-> "ok", result |-> result]
WithParts(parts) == OkResponse([candidates |-> <<[content |-> [parts |-> parts]]>>])

Responses ==
    {[kind |-> "HTTPError", result |-> EmptyDict],
     [kind |-> "Exception", result |-> EmptyDict],
     OkResponse(EmptyDict),
     OkResponse([candidates |-> <<>>]),
     OkResponse([candidates |-> <<EmptyDict>>]),
     OkResponse([candidates |-> <<[content |-> EmptyDict]>>]),
     WithParts(<<>>),
     WithParts(<<EmptyDict>>),
     WithParts(<<[text |-> <<>>]>>)}
    \cup {WithParts(<<[text |-> r]>>) : r \in Replies}

SaveOutcomes == {"ok", "open_fails", "write_fails"}

\* ------------------------------------------------------------ state

VARIABLES
    procs,        \* the invocation slots in use
    fileExists,   \* HISTORY_FILE.exists()
    fileText,     \* the text of HISTORY_FILE
    cfgFile,      \* ~/.claude/.env: "nofile", "unreadable", "noline" (no
                  \* GOOGLE_API_KEY= line), "empty" (the line, no value), "key"
    envVar,       \* whether GOOGLE_API_KEY is set in the environment
    clock,        \* logical time of datetime.now()
    pc,           \* where each process is
    runs,         \* runs started in each slot
    argv,         \* sys.argv[1:] of the run
    callNo,       \* which call of main() of line 213 is under way
    history,      \* main's local history
    response,     \* main's local response
    ret,          \* the value the last call of main() returned
    stdout,       \* what the run printed, one entry per print
    exitStatus,   \* the status given to sys.exit
    requests,     \* how many requests the run has posted
    payload,      \* the `contents` of the request call_gemini posted
    lastResp,     \* what urlopen produced for that request
    log,          \* the lines log() wrote during the call of main()
    startFile,    \* the transcript file when the run started
    saveErrors,   \* whether a save_history of the run failed to write
    firstLoadAt,  \* the clock at the run's first load_history
    lastSaved     \* the list the last save_history wrote, and who wrote it

vars == <<procs, fileExists, fileText, cfgFile, envVar, clock, pc, runs, argv,
          callNo, history, response, ret, stdout, exitStatus, requests,
          payload, lastResp, log, startFile, saveErrors, firstLoadAt,
          lastSaved>>

RetNone == [isNone |-> TRUE, code |-> 0]
RetCode(c) == [isNone |-> FALSE, code |-> c]

NoSave == [some |-> FALSE, by |-> 0, val |-> <<>>]

NoResp == [kind |-> "none", result |-> EmptyDict]

LOG_ENV_ERROR == "WARN Error reading .env"
LOG_NO_KEY == "ERR GOOGLE_API_KEY not found"
LOG_EMPTY == "WARN Gemini API returned empty response"
LOG_HTTP_ERROR == "ERR Gemini API error (code): body"
LOG_API_ERROR == "ERR Gemini API error: exception"
LOG_NO_MESSAGE == "ERR No message provided"
LOG_NO_RESPONSE == "ERR No response from Gemini API"
LOG_SENT == "OK Response sent: preview..."
LOG_LOAD_ERROR == "WARN Error loading history"
LOG_SAVE_ERROR == "WARN Error saving history"

\* ------------------------------------------------------------ functions

\* os.getenv('GOOGLE_API_KEY')
GetEnv(env) == IF env THEN Some(<<"k">>) ELSE None

\* load_env taking the first line of the config file, whatever its name.
load_env_AnyLine(cfg, env) ==
    IF cfg \in {"key", "noline"} THEN [key |-> Some(<<"k">>), logged |-> <<>>]
    ELSE IF cfg = "unreadable" THEN [key |-> GetEnv(env), logged |-> <<LOG_ENV_ERROR>>]
    ELSE [key |-> GetEnv(env), logged |-> <<>>]

\* load_env(): the value of the GOOGLE_API_KEY= line of the config file when
\* there is one and it is not empty, else the environment's; a config file
\* that cannot be read is logged.
load_env(cfg, env) ==
    IF cfg = "key" THEN [key |-> Some(<<"k">>), logged |-> <<>>]
    ELSE IF cfg = "unreadable" THEN [key |-> GetEnv(env), logged |-> <<LOG_ENV_ERROR>>]
    ELSE [key |-> GetEnv(env), logged |-> <<>>]

\* load_history(): [] when the file is absent or does not parse.
Loaded(r) ==
    IF r.ok THEN [val |-> r.val, logged |-> <<>>]
    ELSE [val |-> <<>>, logged |-> <<LOG_LOAD_ERROR>>]

load_history(exists, text) ==
    IF ~exists THEN [val |-> <<>>, logged |-> <<>>] ELSE Loaded(JsonLoad(text))

\* TrimHistory keeping the head, history[:MAX_HISTORY].
TrimHistory_KeepsHead(h) ==
    IF Len(h) > MAX_HISTORY THEN SubSeq(h, 1, MAX_HISTORY) ELSE h

\* history[-MAX_HISTORY:] if len(history) > MAX_HISTORY else history
TrimHistory(h) ==
    IF Len(h) > MAX_HISTORY THEN SubSeq(h, Len(h) - MAX_HISTORY + 1, Len(h)) ELSE h

\* save_history reading the file again and adding its two new turns to that.
save_history_Merging(h, outcome, exists, text) ==
    IF outcome = "ok" THEN
        [exists |-> TRUE,
         text |-> JsonDump(TrimHistory(load_history(exists, text).val
                                       \o SubSeq(h, Len(h) - 1, Len(h)))),
         logged |-> <<>>]
    ELSE IF outcome = "open_fails" THEN
        [exists |-> exists, text |-> text, logged |-> <<LOG_SAVE_ERROR>>]
    ELSE [exists |-> TRUE, text |-> <<>>, logged |-> <<LOG_SAVE_ERROR>>]

\* save_history(history) when the file is (exists, text) and the write ends
\* as `outcome`: the file afterwards and what was logged.  A write that fails
\* after open(..., 'w') leaves a truncated text, which no longer parses.
save_history(h, outcome, exists, text) ==
    IF outcome = "ok" THEN
        [exists |-> TRUE, text |-> JsonDump(TrimHistory(h)), logged |-> <<>>]
    ELSE IF outcome = "open_fails" THEN
        [exists |-> exists, text |-> text, logged |-> <<LOG_SAVE_ERROR>>]
    ELSE [exists |-> TRUE, text |-> <<>>, logged |-> <<LOG_SAVE_ERROR>>]

Message(role, text) == [role |-> role, parts |-> <<[text |-> text]>>]

\* BuildMessages without the current user message after a replayed history.
BuildMessages_ReplayOnly(user_message, h) ==
    IF h = <<>> THEN
        <<Message(USER, system_prompt \o USER_PREFIX \o user_message)>>
    ELSE [i \in 1..Len(h) |-> Message(h[i].role, h[i].content)]

\* The `messages` list of call_gemini.
BuildMessages(user_message, h) ==
    IF h = <<>> THEN
        <<Message(USER, system_prompt \o USER_PREFIX \o user_message)>>
    ELSE [i \in 1..Len(h) |-> Message(h[i].role, h[i].content)]
         \o <<Message(USER, user_message)>>

\* dict.get(key, default)
Get(d, key, default) == IF key \in DOMAIN d THEN d[key] ELSE default

\* What call_gemini returns and logs for what urlopen produced.
ExtractReply(resp) ==
    IF resp.kind = "HTTPError" THEN [value |-> None, logged |-> <<LOG_HTTP_ERROR>>]
    ELSE IF resp.kind = "Exception" THEN [value |-> None, logged |-> <<LOG_API_ERROR>>]
    ELSE LET result == resp.result IN
        IF "candidates" \in DOMAIN result /\ Len(result.candidates) > 0 THEN
            LET content == Get(result.candidates[1], "content", EmptyDict) IN
            IF "parts" \in DOMAIN content /\ Len(content.parts) > 0 THEN
                [value |-> Some(Get(content.parts[1], "text", <<>>)), logged |-> <<>>]
            ELSE [value |-> None, logged |-> <<LOG_EMPTY>>]
        ELSE [value |-> None, logged |-> <<LOG_EMPTY>>]

\* ------------------------------------------------------------ actions

InitProc ==
    /\ clock = 0
    /\ pc = [p \in Procs |-> "idle"]
    /\ runs = [p \in Procs |-> 0]
    /\ argv = [p \in Procs |-> <<>>]
    /\ callNo = [p \in Procs |-> 0]
    /\ history = [p \in Procs |-> <<>>]
    /\ response = [p \in Procs |-> None]
    /\ ret = [p \in Procs |-> RetNone]
    /\ stdout = [p \in Procs |-> <<>>]
    /\ exitStatus = [p \in Procs |-> 0]
    /\ requests = [p \in Procs |-> 0]
    /\ payload = [p \in Procs |-> <<>>]
    /\ lastResp = [p \in Procs |-> NoResp]
    /\ log = [p \in Procs |-> <<>>]
    /\ startFile = [p \in Procs |-> [exists |-> FALSE, text |-> <<>>]]
    /\ saveErrors = [p \in Procs |-> FALSE]
    /\ firstLoadAt = [p \in Procs |-> 0]
    /\ lastSaved = NoSave

InitFile ==
    \/ fileExists = FALSE /\ fileText = <<>>
    \/ fileExists = TRUE /\ \E n \in InitLens : fileText = JsonDump(StoredTranscript(n))

\* Where the credential may be: nowhere (no config file, one that cannot be
\* read, one without the line or with an empty value), in the config file, or
\* only in the environment.
CredentialSetups ==
    {<<"nofile", FALSE>>, <<"unreadable", FALSE>>, <<"noline", FALSE>>,
     <<"empty", FALSE>>, <<"key", FALSE>>, <<"noline", TRUE>>}

InitEnv == \E c \in CredentialSetups : cfgFile = c[1] /\ envVar = c[2]

\* One invocation at a time.
Init == procs = {1} /\ InitFile /\ InitEnv /\ InitProc

\* Two invocations whose steps interleave; the credential is there.
InitConc ==
    /\ procs = {1, 2}
    /\ fileExists = FALSE /\ fileText = <<>>
    /\ cfgFile = "key" /\ envVar = FALSE
    /\ InitProc

\* The shell script starts the program with the arguments args.
Start(p, args) ==
    /\ pc[p] \in {"idle", "exited"}
    /\ runs[p] < (IF procs = {1} THEN MaxRuns ELSE 1)
    /\ runs' = [runs EXCEPT ![p] = @ + 1]
    /\ argv' = [argv EXCEPT ![p] = args]
    /\ callNo' = [callNo EXCEPT ![p] = 1]
    /\ pc' = [pc EXCEPT ![p] = "main"]
    /\ history' = [history EXCEPT ![p] = <<>>]
    /\ response' = [response EXCEPT ![p] = None]
    /\ ret' = [ret EXCEPT ![p] = RetNone]
    /\ stdout' = [stdout EXCEPT ![p] = <<>>]
    /\ exitStatus' = [exitStatus EXCEPT ![p] = 0]
    /\ requests' = [requests EXCEPT ![p] = 0]
    /\ payload' = [payload EXCEPT ![p] = <<>>]
    /\ lastResp' = [lastResp EXCEPT ![p] = NoResp]
    /\ log' = [log EXCEPT ![p] = <<>>]
    /\ startFile' = [startFile EXCEPT ![p] = [exists |-> fileExists, text |-> fileText]]
    /\ saveErrors' = [saveErrors EXCEPT ![p] = FALSE]
    /\ firstLoadAt' = [firstLoadAt EXCEPT ![p] = 0]
    /\ UNCHANGED <<procs, fileExists, fileText, cfgFile, envVar, clock, lastSaved>>

\* main(), lines 176-183: the argument check and load_history().
Main_Load(p) ==
    /\ pc[p] = "main"
    /\ IF Len(argv[p]) < 1
       THEN /\ log' = [log EXCEPT ![p] = <<LOG_NO_MESSAGE>>]
            /\ ret' = [ret EXCEPT ![p] = RetNone]
            /\ pc' = [pc EXCEPT ![p] = "returned"]
            /\ history' = [history EXCEPT ![p] = <<>>]
            /\ firstLoadAt' = firstLoadAt
       ELSE LET h == load_history(fileExists, fileText) IN
            /\ log' = [log EXCEPT ![p] = h.logged]
            /\ history' = [history EXCEPT ![p] = h.val]
            /\ pc' = [pc EXCEPT ![p] = "call_gemini"]
            /\ ret' = ret
            /\ firstLoadAt' = [firstLoadAt EXCEPT ![p] = IF callNo[p] = 1 THEN clock ELSE @]
    /\ UNCHANGED <<procs, fileExists, fileText, cfgFile, envVar, clock, runs, argv,
                   callNo, response, stdout, exitStatus, requests, payload,
                   lastResp, startFile, saveErrors, lastSaved>>

\* call_gemini(), lines 105-155: the credential, the payload, the POST.
CallGemini_Request(p) ==
    /\ pc[p] = "call_gemini"
    /\ IF ~Truthy(load_env(cfgFile, envVar).key)
       THEN /\ log' = [log EXCEPT ![p] = @ \o load_env(cfgFile, envVar).logged
                                         \o <<LOG_NO_KEY>>]
            /\ response' = [response EXCEPT ![p] = None]
            /\ pc' = [pc EXCEPT ![p] = "branch"]
            /\ UNCHANGED <<requests, payload>>
       ELSE /\ payload' = [payload EXCEPT ![p] = BuildMessages(argv[p][1], history[p])]
            /\ requests' = [requests EXCEPT ![p] = @ + 1]
            /\ pc' = [pc EXCEPT ![p] = "urlopen"]
            /\ log' = [log EXCEPT ![p] = @ \o load_env(cfgFile, envVar).logged]
            /\ UNCHANGED response
    /\ UNCHANGED <<procs, fileExists, fileText, cfgFile, envVar, clock, runs, argv,
                   callNo, history, ret, stdout, exitStatus, lastResp, startFile,
                   saveErrors, firstLoadAt, lastSaved>>

\* call_gemini(), lines 155-172: urlopen produces resp.
CallGemini_Response(p, resp) ==
    /\ pc[p] = "urlopen"
    /\ LET r == ExtractReply(resp) IN
        /\ response' = [response EXCEPT ![p] = r.value]
        /\ log' = [log EXCEPT ![p] = @ \o r.logged]
    /\ lastResp' = [lastResp EXCEPT ![p] = resp]
    /\ pc' = [pc EXCEPT ![p] = "branch"]
    /\ UNCHANGED <<procs, fileExists, fileText, cfgFile, envVar, clock, runs, argv,
                   callNo, history, ret, stdout, exitStatus, requests, payload,
                   startFile, saveErrors, firstLoadAt, lastSaved>>

\* main(), lines 188-207: two turns appended, save_history, print, return 0.
Main_Success(p, outcome) ==
    /\ pc[p] = "branch"
    /\ Truthy(response[p])
    /\ LET h == history[p]
                \o <<[role |-> USER, content |-> argv[p][1],
                      timestamp |-> IsoFormat(clock)],
                     [role |-> ASSISTANT, content |-> response[p].val,
                      timestamp |-> IsoFormat(clock + 1)]>>
           s == save_history(h, outcome, fileExists, fileText) IN
        /\ history' = [history EXCEPT ![p] = h]
        /\ fileExists' = s.exists
        /\ fileText' = s.text
        /\ lastSaved' = IF outcome = "ok" THEN [some |-> TRUE, by |-> p, val |-> h]
                        ELSE IF outcome = "open_fails" THEN lastSaved ELSE NoSave
        /\ log' = [log EXCEPT ![p] = @ \o s.logged \o <<LOG_SENT>>]
    /\ clock' = clock + 2
    /\ stdout' = [stdout EXCEPT ![p] = Append(@, response[p].val)]
    /\ ret' = [ret EXCEPT ![p] = RetCode(0)]
    /\ pc' = [pc EXCEPT ![p] = "returned"]
    /\ saveErrors' = [saveErrors EXCEPT ![p] = @ \/ outcome # "ok"]
    /\ UNCHANGED <<procs, cfgFile, envVar, runs, argv, callNo, response, exitStatus,
                   requests, payload, lastResp, startFile, firstLoadAt>>

\* main(), lines 208-210: no reply, return 1.
Main_Failure(p) ==
    /\ pc[p] = "branch"
    /\ ~Truthy(response[p])
    /\ log' = [log EXCEPT ![p] = @ \o <<LOG_NO_RESPONSE>>]
    /\ ret' = [ret EXCEPT ![p] = RetCode(1)]
    /\ pc' = [pc EXCEPT ![p] = "returned"]
    /\ UNCHANGED <<procs, fileExists, fileText, cfgFile, envVar, clock, runs, argv,
                   callNo, history, response, stdout, exitStatus, requests, payload,
                   lastResp, startFile, saveErrors, firstLoadAt, lastSaved>>

\* Line 213, sys.exit(main() if main() is not None else 1): the condition calls
\* main() once; when that did not return None the value is a second call.
Toplevel(p) ==
    /\ pc[p] = "returned"
    /\ IF callNo[p] = 1
       THEN IF ret[p].isNone
            THEN /\ exitStatus' = [exitStatus EXCEPT ![p] = 1]
                 /\ pc' = [pc EXCEPT ![p] = "exited"]
                 /\ callNo' = callNo
            ELSE /\ callNo' = [callNo EXCEPT ![p] = 2]
                 /\ pc' = [pc EXCEPT ![p] = "main"]
                 /\ exitStatus' = exitStatus
       ELSE /\ exitStatus' = [exitStatus EXCEPT
                                 ![p] = IF ret[p].isNone THEN 0 ELSE ret[p].code]
            /\ pc' = [pc EXCEPT ![p] = "exited"]
            /\ callNo' = callNo
    \* the locals of the call of main() that returned are gone
    /\ history' = [history EXCEPT ![p] = <<>>]
    /\ response' = [response EXCEPT ![p] = None]
    /\ payload' = [payload EXCEPT ![p] = <<>>]
    /\ lastResp' = [lastResp EXCEPT ![p] = NoResp]
    /\ log' = [log EXCEPT ![p] = <<>>]
    /\ UNCHANGED <<procs, fileExists, fileText, cfgFile, envVar, clock, runs, argv,
                   ret, stdout, requests, startFile, saveErrors, firstLoadAt,
                   lastSaved>>

Arguments == {<<>>} \cup {<<m>> : m \in Msgs}

Next ==
    \/ \E p \in procs, args \in Arguments : Start(p, args)
    \/ \E p \in procs : Main_Load(p)
    \/ \E p \in procs : CallGemini_Request(p)
    \/ \E p \in procs, resp \in Responses : CallGemini_Response(p, resp)
    \/ \E p \in procs, outcome \in SaveOutcomes : Main_Success(p, outcome)
    \/ \E p \in procs : Main_Failure(p)
    \/ \E p \in procs : Toplevel(p)

Spec == Init /\ [][Next]_vars

SpecConc == InitConc /\ [][Next]_vars

\* ------------------------------------------------------------ properties

\* The turns the transcript file holds, as load_history reads them.
FileTurns == load_history(fileExists, fileText).val

\* The turns the file held when the run of p started.
StartTurns(p) == load_history(startFile[p].exists, startFile[p].text).val

FileUnchangedSince(p) ==
    fileExists = startFile[p].exists /\ fileText = startFile[p].text

HasUserTurn(h, m) == \E i \in 1..Len(h) : h[i].role = USER /\ h[i].content = m

CredentialMissing == cfgFile \in {"nofile", "noline"} /\ ~envVar

\* C1: a run that exits with status 1 has written nothing to standard
\* output; reply text is on stdout only in runs that exit with status 0.
C1_FailureIsSilent ==
    \A p \in procs :
        (pc[p] = "exited" /\ exitStatus[p] = 1) => stdout[p] = <<>>

\* C2: a run that exits with status 1, nobody else touching the file, leaves
\* the transcript file as it was when the run started.
C2_FailureLeavesFile ==
    \A p \in procs :
        (pc[p] = "exited" /\ exitStatus[p] = 1) => FileUnchangedSince(p)

\* C3: a run posts at most one request to the generation endpoint.
C3_SingleAttempt == \A p \in procs : requests[p] <= 1

\* C4: with a stored transcript T of at most MAX_HISTORY - 2 turns and every
\* request answered by a success response with non-empty text r, a run with
\* message m prints r exactly once, leaves the file holding T followed by
\* (user, m) and (assistant, r), and exits 0.
C4_SuccessfulRoundTrip ==
    \A p \in procs :
        LET T == StartTurns(p)
            n == Len(T)
            F == FileTurns IN
        (/\ pc[p] = "exited"
         /\ Len(argv[p]) = 1
         /\ requests[p] >= 1
         /\ Len(stdout[p]) = requests[p]
         /\ ~saveErrors[p]
         /\ n <= MAX_HISTORY - 2)
        => \E r \in Replies :
            /\ stdout[p] = <<r>>
            /\ exitStatus[p] = 0
            /\ Len(F) = n + 2
            /\ SubSeq(F, 1, n) = T
            /\ F[n + 1].role = USER /\ F[n + 1].content = argv[p][1]
            /\ F[n + 2].role = ASSISTANT /\ F[n + 2].content = r

\* C5: when save_history wrote a list H of more than MAX_HISTORY turns the
\* file holds exactly the last MAX_HISTORY turns of H in their order; and a
\* file that starts with at most MAX_HISTORY turns never holds more.  The file
\* changes only in the step of main() that calls save_history, so it is read
\* at the start and right after each such step.
C5_SaveKeepsLastTwenty ==
    LET F == FileTurns
        H == lastSaved.val
        dropped == Len(H) - MAX_HISTORY
        atStart == \A p \in procs : pc[p] = "idle"
        afterSave == \E p \in procs : pc[p] = "returned" /\ ret[p] = RetCode(0) IN
    (atStart \/ afterSave) =>
        /\ Len(F) <= MAX_HISTORY
        /\ (lastSaved.some /\ pc[lastSaved.by] = "returned" /\ Len(H) > MAX_HISTORY) =>
            /\ Len(F) = MAX_HISTORY
            /\ \A i \in 1..MAX_HISTORY : F[i] = H[dropped + i]

C5_Witness ==
    /\ lastSaved.some
    /\ Len(lastSaved.val) = MAX_HISTORY + 2
    /\ pc[lastSaved.by] = "returned"

\* C6: after save_history wrote a list H of fewer than MAX_HISTORY turns,
\* load_history returns H: same turns (role, content, timestamp), same order.
C6_RoundTrip ==
    \A p \in procs :
        (pc[p] = "call_gemini" /\ lastSaved.some /\ Len(lastSaved.val) < MAX_HISTORY)
        => history[p] = lastSaved.val

C6_Witness ==
    \E p \in procs :
        /\ pc[p] = "call_gemini" /\ callNo[p] = 2
        /\ lastSaved.some /\ lastSaved.by = p
        /\ Len(lastSaved.val) = MAX_HISTORY - 1
        /\ \E i \in 1..Len(history[p]) : QUOTE \in {history[p][i].content[j] :
                                                    j \in 1..Len(history[p][i].content)}

\* C7: the request of call_gemini(m, T): for empty T one message, role user,
\* text persona + "\n\nUser: " + m; for T of n turns, n + 1 messages, message i
\* with role and content of turn i, message n + 1 with role user and text m.
C7_RequestShape ==
    \A p \in procs :
        pc[p] = "urlopen" =>
            LET T == history[p]
                n == Len(T)
                m == argv[p][1]
                c == payload[p] IN
            IF n = 0
            THEN /\ Len(c) = 1
                 /\ c[1].role = USER
                 /\ Len(c[1].parts) = 1
                 /\ c[1].parts[1].text = system_prompt \o USER_PREFIX \o m
            ELSE /\ Len(c) = n + 1
                 /\ \A i \in 1..n :
                        /\ c[i].role = T[i].role
                        /\ Len(c[i].parts) = 1
                        /\ c[i].parts[1].text = T[i].content
                 /\ c[n + 1].role = USER
                 /\ Len(c[n + 1].parts) = 1
                 /\ c[n + 1].parts[1].text = m

C7_Witness ==
    \E p \in procs :
        /\ pc[p] = "urlopen"
        /\ Len(history[p]) = MAX_HISTORY
        /\ Len(payload[p]) = MAX_HISTORY + 1

\* C8: nothing locks the transcript file: the file holds a user turn of
\* another run's message only if the list of the last save_history held it,
\* so a save made from a list loaded before the other run saved erases the
\* other run's turns, and both runs still exit 0.
C8_LastSaveOverwrites ==
    \A p \in procs : \A q \in procs \ {p} :
        (/\ lastSaved.some /\ lastSaved.by = p
         /\ Len(argv[q]) = 1
         /\ ~HasUserTurn(lastSaved.val, argv[q][1]))
        => ~HasUserTurn(FileTurns, argv[q][1])

\* Both runs loaded before either saved, both saved without error and exited
\* 0, and the file holds the turns of run 2 and none of run 1.
C8_LostUpdate ==
    /\ procs = {1, 2}
    /\ \A p \in procs :
        /\ pc[p] = "exited" /\ exitStatus[p] = 0
        /\ Len(argv[p]) = 1 /\ stdout[p] # <<>>
        /\ ~saveErrors[p]
        /\ firstLoadAt[p] = 0
    /\ argv[1] # argv[2]
    /\ HasUserTurn(FileTurns, argv[2][1])
    /\ ~HasUserTurn(FileTurns, argv[1][1])

\* C9: with no credential (no matching line in the config file, no
\* environment variable) call_gemini returns None without a request, the run
\* prints nothing, leaves the transcript file unchanged and exits with 1.
C9_MissingCredential ==
    CredentialMissing =>
        \A p \in procs :
            /\ requests[p] = 0
            /\ stdout[p] = <<>>
            /\ pc[p] = "branch" => response[p] = None
            /\ pc[p] # "idle" => FileUnchangedSince(p)
            /\ pc[p] = "exited" => exitStatus[p] = 1

C9_Witness ==
    /\ CredentialMissing
    /\ \E p \in procs :
        /\ pc[p] = "exited" /\ Len(argv[p]) = 1
        /\ fileExists /\ Len(FileTurns) > 0

\* An HTTP-success document that lacks one of the expected fields.
FieldAbsent(result) ==
    \/ "candidates" \notin DOMAIN result
    \/ result.candidates = <<>>
    \/ "content" \notin DOMAIN result.candidates[1]
    \/ "parts" \notin DOMAIN result.candidates[1].content
    \/ result.candidates[1].content.parts = <<>>
    \/ "text" \notin DOMAIN result.candidates[1].content.parts[1]

\* C10: for an HTTP-success response in which an expected field is absent
\* (no candidates, an empty candidate list, no content, no or empty parts, a
\* first part without text) call_gemini returns None and logs the
\* empty-response warning, not an error.
C10_AbsentFieldIsWarned ==
    \A p \in procs :
        (pc[p] = "branch" /\ lastResp[p].kind = "ok" /\ FieldAbsent(lastResp[p].result))
        => /\ response[p] = None
           /\ log[p] # <<>>
           /\ log[p][Len(log[p])] = LOG_EMPTY

====
